---------------------------- MODULE Spec2Model ----------------------------
(***************************************************************************)
(* A model of the solar-system renderer: the winit application handler     *)
(* (app.rs), the camera controller (camera.rs), the orbital scene model    *)
(* (planets.rs, sun.rs) and the HDR target (hdr.rs).                       *)
(*                                                                         *)
(* Numbers.  f32 values are fixed-point integers:                          *)
(*   angles     in 1e-4 rad  (so the 0.0001 of SAFE_FRAC_PI_2 is 1 unit)   *)
(*   lengths    in 1e-3 world units, unit vectors scaled by 1000           *)
(*   durations  in milliseconds                                            *)
(*   mouse deltas and key amounts are whole numbers.                       *)
(* Every float expression of the source is computed in the source's order  *)
(* with truncating division; values stay finite (no inf / NaN inputs).     *)
(***************************************************************************)
EXTENDS Integers, Sequences, FiniteSets, TLC

VARIABLES
    app,              \* App.state: None, or the State record
    window,           \* the winit window: None, or [inner_size, cursor_grab, cursor_visible]
    exiting,          \* event_loop.exit() has been called
    redraw_requested, \* window.request_redraw() is pending
    effects,          \* the calls the last event handler made, in order
    last,             \* the last event handled (history)
    hdr,              \* hdr::HdrPipeline: None, or [width, height]
    planets,          \* planets::Planets: None, or [instances, instance_buffer]
    sun               \* sun::Sun: None, or [light, instance, instance_buffer]

vars == <<app, window, exiting, redraw_requested, effects, last, hdr, planets, sun>>

\* Option::None (no record and no tuple of the model is empty)
None == <<>>

\* an f32 that is finite (value scaled as its use says), infinite or not a number
Finite(x) == [class |-> "finite", value |-> x]
Infinity == [class |-> "inf", value |-> 0]
NaN == [class |-> "NaN", value |-> 0]

(***************************************************************************)
(* Bounds of the model.                                                    *)
(***************************************************************************)
\* |rotate_horizontal|, |rotate_vertical| stay within this many pixels
MaxRotate == 30
\* |yaw| stays within this many quarter turns
MaxYawQuarters == 1
\* the camera stays within this many 1e-3 units of its start, per axis
MaxTravel == 1000
\* in the model of long updates the camera stays within this many units of its
\* start, per axis
MaxAdvance == 4
\* elapsed times handed to the scene model: 0 .. MaxTime half seconds, and
\* 0 .. MaxTime thirds of a minute
MaxTime == 3

(***************************************************************************)
(* Arithmetic helpers.                                                     *)
(***************************************************************************)
Abs(x) == IF x < 0 THEN -x ELSE x

\* division rounding toward zero, as f32 products and quotients are symmetric in sign
TruncDiv(a, b) == IF a >= 0 THEN a \div b ELSE -((-a) \div b)

RECURSIVE IsqrtIter(_, _)
IsqrtIter(n, x) ==
    LET y == (x + n \div x) \div 2
    IN  IF y >= x THEN x ELSE IsqrtIter(n, y)

Isqrt(n) == IF n <= 0 THEN 0 ELSE IsqrtIter(n, n)

\* std::f32::consts::PI and FRAC_PI_2, in 1e-4 rad
PI == 31416
FRAC_PI_2 == 15708

\* f32::sin on [0, PI], scaled by 1000 (Bhaskara's rational approximation)
SinHalfTurn(y) ==
    LET q == (y * (PI - y)) \div 10000
        d == 5 * ((PI * PI) \div 10000) - 4 * q
    IN  (16000 * q) \div d

\* f32::sin, scaled by 1000
Sin(x) ==
    LET y == x % (2 * PI)
    IN  IF y <= PI THEN SinHalfTurn(y) ELSE -SinHalfTurn(y - PI)

\* f32::cos, scaled by 1000
Cos(x) == Sin(x + FRAC_PI_2)

\* f32::to_radians: degrees to 1e-4 rad
to_radians(deg) == TruncDiv(deg * PI, 180)

Max(a, b) == IF a >= b THEN a ELSE b

MaxAbs(v) == Max(Abs(v[1]), Max(Abs(v[2]), Abs(v[3])))

\* v * 1000 / d, componentwise
Div3(v, d) == <<TruncDiv(v[1] * 1000, d), TruncDiv(v[2] * 1000, d), TruncDiv(v[3] * 1000, d)>>

\* glam::Vec3::NAN, all three components NaN, kept as one value
NaNVec3 == <<NaN>>

\* glam::Vec3::length
Length(v) == Isqrt(v[1] * v[1] + v[2] * v[2] + v[3] * v[3])

\* glam::Vec3::normalize: v / |v| as a vector scaled by 1000 (the components are
\* first brought to at most 1000 so that the squares stay small); the zero vector
\* has length 0 and normalizes to NaN
normalize(v) ==
    IF MaxAbs(v) = 0 THEN NaNVec3
    ELSE Div3(Div3(v, MaxAbs(v)), Length(Div3(v, MaxAbs(v))))

\* f32::clamp
clamp(x, lo, hi) == IF x < lo THEN lo ELSE IF x > hi THEN hi ELSE x

(***************************************************************************)
(* camera.rs                                                               *)
(***************************************************************************)
SAFE_FRAC_PI_2 == FRAC_PI_2 - 1

\* Camera::new
Camera_new(position, yaw, pitch) == [position |-> position, yaw |-> yaw, pitch |-> pitch]

\* width as f32 / height as f32, scaled by 1000; x/0 is inf, 0/0 is NaN
Aspect(width, height) ==
    IF height = 0 THEN (IF width = 0 THEN NaN ELSE Infinity)
    ELSE Finite((width * 1000) \div height)

\* Projection::new
Projection_new(width, height, fovy, znear, zfar) ==
    [aspect |-> Aspect(width, height), fovy |-> fovy, znear |-> znear, zfar |-> zfar]

\* Projection::resize
Projection_resize(projection, width, height) ==
    [projection EXCEPT !.aspect = Aspect(width, height)]

\* CameraUniform::update_view_projection_matrix: projection * view, kept as the
\* values the two matrices are built from
view_projection_matrix(camera, projection) ==
    [position |-> camera.position, yaw |-> camera.yaw, pitch |-> camera.pitch,
     aspect |-> projection.aspect, fovy |-> projection.fovy,
     znear |-> projection.znear, zfar |-> projection.zfar]

\* CameraController::new
CameraController_new(speed, sensitivity) ==
    [amount_left |-> 0, amount_right |-> 0, amount_forward |-> 0,
     amount_backward |-> 0, amount_up |-> 0, amount_down |-> 0,
     rotate_horizontal |-> 0, rotate_vertical |-> 0,
     speed |-> speed, sensitivity |-> sensitivity]

\* winit KeyCode values the model distinguishes; KeyQ and Escape stand for the
\* codes outside the controller's match
KeyCodes ==
    {"KeyW", "ArrowUp", "KeyS", "ArrowDown", "KeyA", "ArrowLeft", "KeyD",
     "ArrowRight", "Space", "ShiftLeft", "Escape", "KeyQ"}

\* a key handler that takes ArrowUp for the upward direction
process_keyboard_arrow_is_up(c, key, pressed) ==
    LET amount == IF pressed THEN 1 ELSE 0
    IN  CASE key = "KeyW" ->
                [controller |-> [c EXCEPT !.amount_forward = amount], handled |-> TRUE]
          [] key \in {"KeyS", "ArrowDown"} ->
                [controller |-> [c EXCEPT !.amount_backward = amount], handled |-> TRUE]
          [] key \in {"KeyA", "ArrowLeft"} ->
                [controller |-> [c EXCEPT !.amount_left = amount], handled |-> TRUE]
          [] key \in {"KeyD", "ArrowRight"} ->
                [controller |-> [c EXCEPT !.amount_right = amount], handled |-> TRUE]
          [] key \in {"Space", "ArrowUp"} ->
                [controller |-> [c EXCEPT !.amount_up = amount], handled |-> TRUE]
          [] key = "ShiftLeft" ->
                [controller |-> [c EXCEPT !.amount_down = amount], handled |-> TRUE]
          [] OTHER -> [controller |-> c, handled |-> FALSE]

\* a process_keyboard that sets a flag on a press and ignores the release
process_keyboard_press_only(c, key, pressed) ==
    CASE key \in {"KeyW", "ArrowUp"} ->
            [controller |-> [c EXCEPT !.amount_forward = IF pressed THEN 1 ELSE @],
             handled |-> TRUE]
      [] key \in {"KeyS", "ArrowDown"} ->
            [controller |-> [c EXCEPT !.amount_backward = IF pressed THEN 1 ELSE @],
             handled |-> TRUE]
      [] key \in {"KeyA", "ArrowLeft"} ->
            [controller |-> [c EXCEPT !.amount_left = IF pressed THEN 1 ELSE @],
             handled |-> TRUE]
      [] key \in {"KeyD", "ArrowRight"} ->
            [controller |-> [c EXCEPT !.amount_right = IF pressed THEN 1 ELSE @],
             handled |-> TRUE]
      [] key = "Space" ->
            [controller |-> [c EXCEPT !.amount_up = IF pressed THEN 1 ELSE @],
             handled |-> TRUE]
      [] key = "ShiftLeft" ->
            [controller |-> [c EXCEPT !.amount_down = IF pressed THEN 1 ELSE @],
             handled |-> TRUE]
      [] OTHER -> [controller |-> c, handled |-> FALSE]

\* CameraController::process_keyboard: the controller after the call and the
\* value returned
process_keyboard(c, key, pressed) ==
    LET amount == IF pressed THEN 1 ELSE 0
    IN  CASE key \in {"KeyW", "ArrowUp"} ->
                [controller |-> [c EXCEPT !.amount_forward = amount], handled |-> TRUE]
          [] key \in {"KeyS", "ArrowDown"} ->
                [controller |-> [c EXCEPT !.amount_backward = amount], handled |-> TRUE]
          [] key \in {"KeyA", "ArrowLeft"} ->
                [controller |-> [c EXCEPT !.amount_left = amount], handled |-> TRUE]
          [] key \in {"KeyD", "ArrowRight"} ->
                [controller |-> [c EXCEPT !.amount_right = amount], handled |-> TRUE]
          [] key = "Space" ->
                [controller |-> [c EXCEPT !.amount_up = amount], handled |-> TRUE]
          [] key = "ShiftLeft" ->
                [controller |-> [c EXCEPT !.amount_down = amount], handled |-> TRUE]
          [] OTHER -> [controller |-> c, handled |-> FALSE]

\* CameraController::handle_mouse
handle_mouse(c, mouse_dx, mouse_dy) ==
    [c EXCEPT !.rotate_horizontal = @ + mouse_dx, !.rotate_vertical = @ + mouse_dy]

\* v * k * speed * dt for a unit vector v scaled by 1000, dt in ms
Scaled(v, k, speed, dt) ==
    <<TruncDiv(v[1] * k * speed * dt, 1000),
      TruncDiv(v[2] * k * speed * dt, 1000),
      TruncDiv(v[3] * k * speed * dt, 1000)>>

Add(u, v) == <<u[1] + v[1], u[2] + v[2], u[3] + v[3]>>

\* the look direction of update_camera and view_matrix
Forward(yaw, pitch) ==
    <<TruncDiv(Cos(pitch) * Cos(yaw), 1000), Sin(pitch),
      TruncDiv(Cos(pitch) * Sin(yaw), 1000)>>

\* a rotation that leaves the frame time out: the pending motion turns the camera
\* as if dt were 1 s
RotationIgnoringTime(deg, sensitivity, dt) ==
    TruncDiv(to_radians(deg) * sensitivity * 1000, 1000)

\* the rotation update_camera adds to an angle: degrees.to_radians() * sensitivity * dt
Rotation(deg, sensitivity, dt) == TruncDiv(to_radians(deg) * sensitivity * dt, 1000)

\* a clamp at the right angle itself, without the 0.0001 margin
ClampPitchToRightAngle(pitch) == clamp(pitch, -FRAC_PI_2, FRAC_PI_2)

\* the clamp of update_camera's last line
ClampPitch(pitch) == clamp(pitch, -SAFE_FRAC_PI_2, SAFE_FRAC_PI_2)

\* an update that clears the direction flags along with the accumulators
ResetRotationAndFlags(c) ==
    [c EXCEPT !.rotate_horizontal = 0, !.rotate_vertical = 0,
              !.amount_forward = 0, !.amount_backward = 0, !.amount_left = 0,
              !.amount_right = 0, !.amount_up = 0, !.amount_down = 0]

\* an update that clears the horizontal accumulator only
ResetHorizontalOnly(c) == [c EXCEPT !.rotate_horizontal = 0]

\* the two assignments that clear the accumulators in update_camera
ResetRotation(c) == [c EXCEPT !.rotate_horizontal = 0, !.rotate_vertical = 0]

\* a move that leaves the frame time out: every update moves as if dt were 1 s
MoveIgnoringTime(position, c, forward, right, up, dt) ==
    Add(Add(Add(position,
                Scaled(forward, c.amount_forward - c.amount_backward, c.speed, 1000)),
            Scaled(right, c.amount_right - c.amount_left, c.speed, 1000)),
        Scaled(up, c.amount_up - c.amount_down, c.speed, 1000))

\* the three += on camera.position in update_camera
Move(position, c, forward, right, up, dt) ==
    Add(Add(Add(position,
                Scaled(forward, c.amount_forward - c.amount_backward, c.speed, dt)),
            Scaled(right, c.amount_right - c.amount_left, c.speed, dt)),
        Scaled(up, c.amount_up - c.amount_down, c.speed, dt))

\* CameraController::update_camera: the controller and the camera after the call
update_camera(c, camera, dt) ==
    [controller |-> ResetRotation(c),
     camera |->
        [position |-> Move(camera.position, c,
                           normalize(Forward(camera.yaw, camera.pitch)),
                           normalize(<<-Sin(camera.yaw), 0, Cos(camera.yaw)>>),
                           <<0, 1000, 0>>, dt),
         yaw |-> camera.yaw + Rotation(c.rotate_horizontal, c.sensitivity, dt),
         pitch |-> ClampPitch(camera.pitch
                              + Rotation(-c.rotate_vertical, c.sensitivity, dt))]]

\* CameraContainer::new
CameraContainer_new(width, height) ==
    LET camera == Camera_new(<<0, 5000, 10000>>, to_radians(-90), to_radians(-20))
        projection == Projection_new(width, height, to_radians(45), 100, 100000)
        uniform == view_projection_matrix(camera, projection)
    IN  [camera |-> camera,
         projection |-> projection,
         camera_controller |-> CameraController_new(4, 12),
         camera_uniform |-> uniform,
         camera_buffer |-> uniform]

\* the container once update_camera has returned r: the uniform is recomputed
WithCamera(cc, r) ==
    [cc EXCEPT !.camera_controller = r.controller,
               !.camera = r.camera,
               !.camera_uniform = view_projection_matrix(r.camera, cc.projection)]

\* CameraContainer::update
CameraContainer_update(cc, dt) ==
    WithCamera(cc, update_camera(cc.camera_controller, cc.camera, dt))

(***************************************************************************)
(* instance.rs                                                             *)
(***************************************************************************)
\* glam::Quat::from_axis_angle, (axis * sin(angle / 2), cos(angle / 2)), kept as its
\* axis and angle; a rotation by 0 about a finite axis is the identity whatever the
\* axis, and a NaN axis gives NaN components whatever the angle
from_axis_angle(axis, angle) ==
    IF axis = NaNVec3 THEN [axis |-> NaNVec3, angle |-> angle]
    ELSE IF angle = 0 THEN [axis |-> <<0, 0, 0>>, angle |-> 0]
    ELSE [axis |-> axis, angle |-> angle]

\* glam::Quat::from_rotation_y
from_rotation_y(angle) == from_axis_angle(<<0, 1000, 0>>, angle)

\* Instance::new as instance.rs has it and app.rs calls it, without a scale
Instance_new_unscaled(position, rotation, texture_index) ==
    [position |-> position, rotation |-> rotation, texture_index |-> texture_index]

\* Instance::new, with the scale argument planets.rs and sun.rs pass
Instance_new(position, rotation, texture_index, scale) ==
    [position |-> position, rotation |-> rotation,
     texture_index |-> texture_index, scale |-> scale]

\* impl From<&Instance> for InstanceRaw
InstanceRaw_from(value) ==
    [model_matrix |-> [translation |-> value.position, rotation |-> value.rotation],
     normal_matrix |-> value.rotation,
     texture_index |-> value.texture_index]

(***************************************************************************)
(* hdr.rs                                                                  *)
(***************************************************************************)
\* HdrPipeline::new: the intermediate target takes the size of the configuration
HdrPipeline_new(config) == [width |-> config.width, height |-> config.height]

\* HdrPipeline::resize
HdrPipeline_resize(h, width, height) == [h EXCEPT !.width = width, !.height = height]

(***************************************************************************)
(* app.rs: State                                                           *)
(***************************************************************************)
NUM_INSTANCES_PER_ROW == 15

\* wgpu::Limits::default().max_texture_dimension_2d, the limit request_device asks for
MAX_TEXTURE_DIMENSION_2D == 8192

\* wgpu::SurfaceError
SurfaceErrors == {"Timeout", "Outdated", "Lost", "OutOfMemory", "Other"}

\* the results of Surface::get_current_texture
AcquireOutcomes == {"Ok"} \cup SurfaceErrors

Op(name) == [op |-> name]

\* texture::Texture::create_depth_texture(&device, &config, ..)
create_depth_texture(config) == [width |-> config.width, height |-> config.height]

\* SPACE_BETWEEN of State::new, in 1e-3 units
SPACE_BETWEEN == 3000

\* INSTANCE_DISPLACEMENT, in 1e-3 units
INSTANCE_DISPLACEMENT ==
    <<(NUM_INSTANCES_PER_ROW * 1000) \div 2, 0, (NUM_INSTANCES_PER_ROW * 1000) \div 2>>

\* the position of the grid instance of column x and row z (0-based):
\* SPACE_BETWEEN * (x - NUM_INSTANCES_PER_ROW / 2) on each axis, less the displacement
grid_position(x, z) ==
    << SPACE_BETWEEN * x - (SPACE_BETWEEN * NUM_INSTANCES_PER_ROW) \div 2
          - INSTANCE_DISPLACEMENT[1],
       0 - INSTANCE_DISPLACEMENT[2],
       SPACE_BETWEEN * z - (SPACE_BETWEEN * NUM_INSTANCES_PER_ROW) \div 2
          - INSTANCE_DISPLACEMENT[3] >>

\* a rotation taken from the normalized position whatever the position
grid_rotation_unguarded(position) ==
    from_axis_angle(normalize(position), to_radians(45))

\* the rotation of a grid instance: a fixed axis for the instance at the origin
grid_rotation(position) ==
    IF position = <<0, 0, 0>>
    THEN from_axis_angle(<<0, 0, 1000>>, 0)
    ELSE from_axis_angle(normalize(position), to_radians(45))

\* the instance State::new builds for column x of row z; each row's closure counts
\* its own copy of i from 0, so column x gets texture (x + 1) % 9
grid_instance(x, z) ==
    Instance_new_unscaled(grid_position(x, z), grid_rotation(grid_position(x, z)),
                          (x + 1) % 9)

\* the instances State::new collects, row by row
grid_instances ==
    [n \in 1..(NUM_INSTANCES_PER_ROW * NUM_INSTANCES_PER_ROW) |->
        grid_instance((n - 1) % NUM_INSTANCES_PER_ROW, (n - 1) \div NUM_INSTANCES_PER_ROW)]

\* State::create_render_pipeline: the pipeline factory; with a depth format the
\* pipeline tests depth with Less and writes depth
create_render_pipeline(color_format, depth_format) ==
    [color_format |-> color_format,
     blend |-> "REPLACE",
     topology |-> "TriangleList",
     cull_mode |-> "Back",
     depth_stencil |->
         IF depth_format = None THEN None
         ELSE [format |-> depth_format,
               depth_write_enabled |-> TRUE,
               depth_compare |-> "Less"]]

\* State::new, for a window of the given inner size
State_new(size) ==
    LET config == [width |-> size[1], height |-> size[2]]
    IN  [config |-> config,
         surface |-> [size |-> None, stale |-> FALSE],
         is_surface_configured |-> FALSE,
         camera_container |-> CameraContainer_new(config.width, config.height),
         instances |-> grid_instances,
         depth_texture |-> create_depth_texture(config)]

\* a guard that lets a size through when either dimension is positive
EitherPositive(width, height) == width > 0 \/ height > 0

\* a guard of State::resize that looks at the width only
WidthPositive(width, height) == width > 0

\* the guard of State::resize
ResizeAccepted(width, height) == width > 0 /\ height > 0

\* State::resize: the state after the call and the GPU calls made
State_resize(st, width, height) ==
    IF ResizeAccepted(width, height)
    THEN LET config == [width |-> width, height |-> height]
         IN  [state |->
                [st EXCEPT !.config = config,
                           !.surface = [size |-> <<config.width, config.height>>,
                                        stale |-> FALSE],
                           !.is_surface_configured = TRUE,
                           !.depth_texture = create_depth_texture(config),
                           !.camera_container.projection =
                                Projection_resize(@, width, height)],
              effects |-> <<Op("surface.configure"), Op("create_depth_texture"),
                            Op("projection.resize")>>]
    ELSE [state |-> st, effects |-> <<>>]

\* queue.write_buffer(&camera_buffer, 0, cast_slice(&[camera_uniform]))
write_camera_buffer(cc) == [cc EXCEPT !.camera_buffer = cc.camera_uniform]

\* an update that advances the camera and leaves the buffer as it is
State_update_without_upload(st, dt) ==
    [st EXCEPT !.camera_container = CameraContainer_update(@, dt)]

\* State::update
State_update(st, dt) ==
    [st EXCEPT !.camera_container = write_camera_buffer(CameraContainer_update(@, dt))]

\* the passes State::render records between begin_render_pass and the drop of
\* the render pass
RecordedPasses(st) ==
    << [op |-> "draw_planets", pipeline |-> "render_pipeline",
        instances |-> Len(st.instances),
        camera_bind_group |-> "camera_bind_group",
        light_bind_group |-> "sun.light.bind_group"],
       [op |-> "draw_sun", pipeline |-> "sun_render_pipeline",
        instances |-> 1,
        camera_bind_group |-> "camera_bind_group",
        light_bind_group |-> "sun.light.bind_group"] >>

\* State::render from get_current_texture on, st1 being the state after update
render_acquired(st1, outcome) ==
    IF outcome # "Ok"
    THEN [state |-> [st1 EXCEPT !.surface.stale =
                                   @ \/ outcome \in {"Lost", "Outdated"}],
          result |-> outcome,
          effects |-> <<Op("request_redraw"), Op("write_camera_buffer"),
                        [op |-> "get_current_texture", result |-> outcome]>>]
    ELSE [state |-> st1,
          result |-> "Ok",
          effects |->
             <<Op("request_redraw"), Op("write_camera_buffer"),
               [op |-> "get_current_texture", result |-> outcome],
               Op("create_view"), Op("create_command_encoder"),
               [op |-> "begin_render_pass",
                color |-> st1.surface.size,
                depth |-> <<st1.depth_texture.width, st1.depth_texture.height>>]>>
             \o RecordedPasses(st1)
             \o <<Op("drop_render_pass"), Op("submit"), Op("present")>>]

\* a render that acquires the surface texture first and updates the camera only
\* once it has one
State_render_acquire_first(st, dt, outcome) ==
    IF ~st.is_surface_configured
    THEN [state |-> st, result |-> "Ok", effects |-> <<Op("request_redraw")>>]
    ELSE IF outcome # "Ok"
    THEN [state |-> [st EXCEPT !.surface.stale =
                                  @ \/ outcome \in {"Lost", "Outdated"}],
          result |-> outcome,
          effects |-> <<Op("request_redraw"),
                        [op |-> "get_current_texture", result |-> outcome]>>]
    ELSE render_acquired(State_update(st, dt), outcome)

\* State::render: the state after the call, the Result returned and the calls made
State_render(st, dt, outcome) ==
    IF ~st.is_surface_configured
    THEN [state |-> st, result |-> "Ok", effects |-> <<Op("request_redraw")>>]
    ELSE render_acquired(State_update(st, dt), outcome)

(***************************************************************************)
(* app.rs: App, the winit ApplicationHandler                               *)
(***************************************************************************)
\* the handler's result after State::resize has returned r
Resized_to(r) == [state |-> r.state, effects |-> r.effects, exit |-> FALSE]

\* an error arm that reconfigures on Lost only and logs Outdated with the rest
render_error_lost_only(st, win, e) ==
    IF e = "Lost"
    THEN Resized_to(State_resize(st, win.inner_size[1], win.inner_size[2]))
    ELSE [state |-> st, effects |-> <<[op |-> "log::error", error |-> e]>>,
          exit |-> FALSE]

\* an error arm that leaves the event loop on OutOfMemory
render_error_exits(st, win, e) ==
    IF e \in {"Lost", "Outdated"}
    THEN Resized_to(State_resize(st, win.inner_size[1], win.inner_size[2]))
    ELSE [state |-> st, effects |-> <<[op |-> "log::error", error |-> e]>>,
          exit |-> (e = "OutOfMemory")]

\* the arm of window_event that handles the Err of State::render
render_error(st, win, e) ==
    IF e \in {"Lost", "Outdated"}
    THEN Resized_to(State_resize(st, win.inner_size[1], win.inner_size[2]))
    ELSE [state |-> st, effects |-> <<[op |-> "log::error", error |-> e]>>,
          exit |-> FALSE]

\* the effects of render followed by those of the error arm
After(r, e) == [state |-> e.state, effects |-> r.effects \o e.effects, exit |-> e.exit]

\* `if let Err(e) = state.render(dt)`, r being what render returned
render_result(r, win) ==
    IF r.result = "Ok"
    THEN [state |-> r.state, effects |-> r.effects, exit |-> FALSE]
    ELSE After(r, render_error(r.state, win, r.result))

\* WindowEvent::RedrawRequested in App::window_event
redraw_requested_event(st, win, dt, outcome) ==
    render_result(State_render(st, dt, outcome), win)

\* State::handle_key
State_handle_key(st, code, pressed) ==
    [state |-> [st EXCEPT !.camera_container.camera_controller =
                              process_keyboard(@, code, pressed).controller],
     exit |-> (code = "Escape" /\ pressed)]


(***************************************************************************)
(* planets.rs                                                              *)
(***************************************************************************)
PLANETS_COUNT == 8

\* PLANETS_RADIUS, in 1e-3 units
PLANETS_RADIUS == <<12500, 17500, 25000, 32500, 42500, 55000, 65000, 77500>>

\* PLANETS_SCALE, in 1e-3 units
PLANETS_SCALE == <<500, 700, 1300, 1000, 3000, 2500, 1800, 1800>>

FRAC_PI_4 == 7854

\* INITIAL_OFFSET, in 1e-4 rad
INITIAL_OFFSET ==
    <<FRAC_PI_4 * 3, FRAC_PI_4 * 7, PI * 2, FRAC_PI_2 * 3, FRAC_PI_2, FRAC_PI_4 * 5,
      PI, FRAC_PI_4>>

\* a point computed with the cosine on both horizontal axes
OnOrbitCosTwice(radius, angle) ==
    <<TruncDiv(radius * Cos(angle), 1000), 0, TruncDiv(radius * Cos(angle), 1000)>>

\* a point of the y = 0 plane at the given radius and angle
OnOrbit(radius, angle) ==
    <<TruncDiv(radius * Cos(angle), 1000), 0, TruncDiv(radius * Sin(angle), 1000)>>

\* a speed whose quadratic coefficient is 0.02 instead of 0.0002
movement_speed_coarse(i) == 1500 - 150 * i - 200 * i * i

\* movement_speed of planet i (0-based), in 1e-4 rad/s: 0.15 - 0.015 i - 0.0002 i i
movement_speed(i) == 1500 - 150 * i - 2 * i * i

\* rotation_speed of planet i (0-based), in 1e-4 rad/s: 0.5 - 0.05 i
rotation_speed(i) == 5000 - 500 * i

\* Planets::new: the instances (planet i of the source is element i + 1) and the
\* instance buffer created from them
Planets_new ==
    LET instances ==
          [k \in 1..PLANETS_COUNT |->
             LET position == OnOrbit(PLANETS_RADIUS[k], INITIAL_OFFSET[k])
             IN  Instance_new(position,
                              from_axis_angle(normalize(position), to_radians(5 * (k - 1))),
                              k - 1, PLANETS_SCALE[k])]
    IN  [instances |-> instances,
         instance_buffer |-> [k \in 1..PLANETS_COUNT |-> InstanceRaw_from(instances[k])]]

\* a loop body that turns the instance further from the rotation it has
Planets_update_instance_incremental(instance, k, t) ==
    LET movement_angle == TruncDiv(t * movement_speed(k - 1), 1000) + INITIAL_OFFSET[k]
        rotation_angle == TruncDiv(t * rotation_speed(k - 1), 1000)
    IN  [instance EXCEPT !.position = OnOrbit(PLANETS_RADIUS[k], movement_angle),
                         !.rotation = from_rotation_y(instance.rotation.angle
                                                      + rotation_angle)]

\* the body of the loop of Planets::update for the instance at index k - 1; t in ms
Planets_update_instance(instance, k, t) ==
    LET movement_angle == TruncDiv(t * movement_speed(k - 1), 1000) + INITIAL_OFFSET[k]
        rotation_angle == TruncDiv(t * rotation_speed(k - 1), 1000)
    IN  [instance EXCEPT !.position = OnOrbit(PLANETS_RADIUS[k], movement_angle),
                         !.rotation = from_rotation_y(rotation_angle)]

\* Planets::update
Planets_update(p, t) ==
    [p EXCEPT !.instances =
        [k \in DOMAIN p.instances |-> Planets_update_instance(p.instances[k], k, t)]]

\* a sync that uploads the records from the last planet to the first
Planets_sync_reversed(p) ==
    [p EXCEPT !.instance_buffer =
        [k \in DOMAIN p.instances |-> InstanceRaw_from(p.instances[PLANETS_COUNT + 1 - k])]]

\* Planets::sync_instance_buffer
Planets_sync_instance_buffer(p) ==
    [p EXCEPT !.instance_buffer =
        [k \in DOMAIN p.instances |-> InstanceRaw_from(p.instances[k])]]

\* a draw of one instance, as the sun's
draw_planets_single(p, camera_bind_group, light_bind_group) ==
    [op |-> "draw_planets", pipeline |-> "planets.render_pipeline",
     instances |-> 1,
     camera_bind_group |-> camera_bind_group, light_bind_group |-> light_bind_group]

\* DrawPlanets::draw_planets: the instanced draw recorded, instances being the end
\* of the range 0..planets.instances.len()
draw_planets(p, camera_bind_group, light_bind_group) ==
    [op |-> "draw_planets", pipeline |-> "planets.render_pipeline",
     instances |-> Len(p.instances),
     camera_bind_group |-> camera_bind_group, light_bind_group |-> light_bind_group]

(***************************************************************************)
(* sun.rs                                                                  *)
(***************************************************************************)
\* Sun::new
Sun_new ==
    LET position == <<0, 0, 0>>
        instance == Instance_new(position, from_rotation_y(0), 0, 6500)
    IN  [light |-> [position |-> position, color |-> <<1000, 1000, 1000>>],
         instance |-> instance,
         instance_buffer |-> <<InstanceRaw_from(instance)>>]

\* Sun::update moving the sun along a circle as well as turning it
Sun_update_orbiting(s, t) ==
    [s EXCEPT !.instance.rotation = from_rotation_y(TruncDiv(t * 1200, 1000)),
              !.instance.position = <<Cos(TruncDiv(t * 1200, 1000)) \div 10, 0, 0>>]

\* Sun::update; t in ms, rotation_speed 0.12 rad/s
Sun_update(s, t) ==
    [s EXCEPT !.instance.rotation = from_rotation_y(TruncDiv(t * 1200, 1000))]

\* Sun::sync_instance_buffer
Sun_sync_instance_buffer(s) ==
    [s EXCEPT !.instance_buffer = <<InstanceRaw_from(s.instance)>>]


(***************************************************************************)
(* skybox.rs                                                               *)
(***************************************************************************)
\* Skybox::new: the pipeline comes from the factory, with the HDR target's
\* colour format, the depth format and no vertex buffers
Skybox_new(h) ==
    [bind_group |-> "environment_bind_group",
     render_pipeline |-> create_render_pipeline("hdr.format", <<"DEPTH_FORMAT">>)]

\* DrawSkybox::draw_skybox: one full-screen triangle
draw_skybox(skybox, camera_bind_group) ==
    [op |-> "draw_skybox",
     pipeline |-> skybox.render_pipeline,
     bind_groups |-> <<camera_bind_group, skybox.bind_group>>,
     vertices |-> 3,
     instances |-> 1]


(***************************************************************************)
(* The state after App::new, and the inputs of the event loop.             *)
(***************************************************************************)
Init ==
    /\ app = None
    /\ window = None
    /\ exiting = FALSE
    /\ redraw_requested = FALSE
    /\ effects = <<>>
    /\ last = [ev |-> "App::new"]
    /\ hdr = None
    /\ planets = None
    /\ sun = None

\* inner sizes the window system reports: zero (minimised), ordinary, and one
\* past the device's texture limit
Widths == {0, 800, MAX_TEXTURE_DIMENSION_2D + 1}
Heights == {0, 300}

\* inner sizes of the window at its creation
StartSizes == {<<0, 0>>, <<800, 600>>}

\* frame times, in ms
Durations == {0, 250}

\* the camera start of CameraContainer::new
StartPosition == <<0, 5000, 10000>>

\* the bounds of the model on the camera and on the accumulators
CameraInBounds(camera) ==
    /\ Abs(camera.yaw) <= MaxYawQuarters * FRAC_PI_2
    /\ \A k \in 1..3 : Abs(camera.position[k] - StartPosition[k]) <= MaxTravel

RotationInBounds(c) ==
    /\ Abs(c.rotate_horizontal) <= MaxRotate
    /\ Abs(c.rotate_vertical) <= MaxRotate

(***************************************************************************)
(* App: one action per event handler.                                      *)
(***************************************************************************)
\* App::resumed keeping what State::new had built when it failed
ResumedKeepingPartial(size, ok) ==
    /\ ~exiting
    /\ window = None
    /\ window' = [inner_size |-> size, cursor_grab |-> "Confined",
                  cursor_visible |-> FALSE]
    /\ app' = IF ok THEN State_new(size) ELSE [config |-> State_new(size).config]
    /\ hdr' = IF ok THEN HdrPipeline_new(State_new(size).config) ELSE None
    /\ sun' = IF ok THEN Sun_new ELSE None
    /\ exiting' = ~ok
    /\ effects' = <<>>
    /\ last' = [ev |-> "Resumed", ok |-> ok]
    /\ UNCHANGED <<redraw_requested, planets>>

\* App::resumed: the window is created with some inner size; State::new either
\* succeeds or its Err is unwrapped (a panic: the process ends)
Resumed(size, ok) ==
    /\ ~exiting
    /\ window = None
    /\ window' = [inner_size |-> size, cursor_grab |-> "Confined",
                  cursor_visible |-> FALSE]
    /\ IF ok
       THEN /\ app' = State_new(size)
            /\ hdr' = HdrPipeline_new(app'.config)
            /\ sun' = Sun_new
            /\ exiting' = FALSE
       ELSE /\ app' = None
            /\ hdr' = None
            /\ sun' = None
            /\ exiting' = TRUE
    /\ effects' = <<>>
    /\ last' = [ev |-> "Resumed", ok |-> ok]
    /\ UNCHANGED <<redraw_requested, planets>>

\* WindowEvent::CloseRequested handled without asking the event loop to exit
CloseRequestedIgnored ==
    /\ ~exiting
    /\ window # None
    /\ effects' = <<>>
    /\ last' = [ev |-> "CloseRequested"]
    /\ UNCHANGED <<app, window, exiting, redraw_requested, hdr, planets, sun>>

\* WindowEvent::CloseRequested
CloseRequested ==
    /\ ~exiting
    /\ window # None
    /\ exiting' = (app # None)
    /\ effects' = <<>>
    /\ last' = [ev |-> "CloseRequested"]
    /\ UNCHANGED <<app, window, redraw_requested, hdr, planets, sun>>

\* WindowEvent::Resized(size): the window has the new inner size
Resized(width, height) ==
    /\ ~exiting
    /\ window # None
    /\ window' = [window EXCEPT !.inner_size = <<width, height>>]
    /\ IF app = None
       THEN UNCHANGED app /\ effects' = <<>>
       ELSE LET r == State_resize(app, width, height)
            IN  app' = r.state /\ effects' = r.effects
    /\ last' = [ev |-> "Resized", width |-> width, height |-> height]
    /\ UNCHANGED <<exiting, redraw_requested, hdr, planets, sun>>

\* WindowEvent::RedrawRequested; dt is now - last_render_time and outcome is
\* what Surface::get_current_texture returns if it is called
RedrawRequested(dt, outcome) ==
    /\ ~exiting
    /\ window # None
    /\ IF app = None
       THEN UNCHANGED <<app, exiting, redraw_requested>> /\ effects' = <<>>
       ELSE LET r == redraw_requested_event(app, window, dt, outcome)
            IN  /\ CameraInBounds(r.state.camera_container.camera)
                /\ app' = r.state
                /\ effects' = r.effects
                /\ exiting' = r.exit
                /\ redraw_requested' = TRUE
    /\ last' = [ev |-> "RedrawRequested", dt |-> dt, outcome |-> outcome]
    /\ UNCHANGED <<window, hdr, planets, sun>>

\* WindowEvent::KeyboardInput with a physical key code
KeyboardInput(code, pressed) ==
    /\ ~exiting
    /\ window # None
    /\ IF app = None
       THEN UNCHANGED <<app, exiting>>
       ELSE LET r == State_handle_key(app, code, pressed)
            IN  app' = r.state /\ exiting' = r.exit
    /\ effects' = <<>>
    /\ last' = [ev |-> "KeyboardInput", code |-> code, pressed |-> pressed]
    /\ UNCHANGED <<window, redraw_requested, hdr, planets, sun>>

\* DeviceEvent::MouseMotion in App::device_event
MouseMotion(dx, dy) ==
    /\ ~exiting
    /\ IF app = None
       THEN UNCHANGED app
       ELSE LET c == handle_mouse(app.camera_container.camera_controller, dx, dy)
            IN  /\ RotationInBounds(c)
                /\ app' = [app EXCEPT !.camera_container.camera_controller = c]
    /\ effects' = <<>>
    /\ last' = [ev |-> "MouseMotion", dx |-> dx, dy |-> dy]
    /\ UNCHANGED <<window, exiting, redraw_requested, hdr, planets, sun>>

\* the keys and pointer motions of the application run
AppKeys == {"KeyW", "KeyQ", "Escape"}
AppMotions == {<<0, 30>>}

Next ==
    \/ \E size \in StartSizes, ok \in BOOLEAN : Resumed(size, ok)
    \/ CloseRequested
    \/ \E w \in Widths, h \in Heights : Resized(w, h)
    \/ \E dt \in Durations, outcome \in AcquireOutcomes : RedrawRequested(dt, outcome)
    \/ \E code \in AppKeys, pressed \in BOOLEAN : KeyboardInput(code, pressed)
    \/ \E m \in AppMotions : MouseMotion(m[1], m[2])

Spec == Init /\ [][Next]_vars


(***************************************************************************)
(* The camera controller driven through its own interface: any order of    *)
(* process_keyboard, handle_mouse and CameraContainer::update.             *)
(***************************************************************************)
InitCamera ==
    /\ app = [camera_container |-> CameraContainer_new(800, 600)]
    /\ window = [inner_size |-> <<800, 600>>, cursor_grab |-> "Confined",
                 cursor_visible |-> FALSE]
    /\ exiting = FALSE
    /\ redraw_requested = FALSE
    /\ effects = <<>>
    /\ last = [ev |-> "CameraContainer::new"]
    /\ hdr = None
    /\ planets = None
    /\ sun = None

\* two different key codes that process_keyboard maps to one and the same flag
SameFlag(k1, k2) ==
    /\ k1 # k2
    /\ process_keyboard(CameraController_new(4, 4), k1, TRUE).handled
    /\ process_keyboard(CameraController_new(4, 4), k1, TRUE).controller
          = process_keyboard(CameraController_new(4, 4), k2, TRUE).controller

\* CameraController::process_keyboard; the record of the call keeps the key
\* event handled just before it when that one was for the other key of the
\* same flag
ProcessKeyboard(key, pressed) ==
    /\ app' = [app EXCEPT !.camera_container.camera_controller =
                              process_keyboard(@, key, pressed).controller]
    /\ last' = [ev |-> "process_keyboard", key |-> key, pressed |-> pressed,
                handled |-> process_keyboard(app.camera_container.camera_controller,
                                             key, pressed).handled,
                previous |-> IF last.ev = "process_keyboard" /\ SameFlag(last.key, key)
                             THEN <<last.key, last.pressed>> ELSE None]
    /\ UNCHANGED <<window, exiting, redraw_requested, effects, hdr, planets, sun>>

HandleMouse(dx, dy) ==
    /\ LET c == handle_mouse(app.camera_container.camera_controller, dx, dy)
       IN  /\ RotationInBounds(c)
           /\ app' = [app EXCEPT !.camera_container.camera_controller = c]
    /\ last' = [ev |-> "handle_mouse", dx |-> dx, dy |-> dy]
    /\ UNCHANGED <<window, exiting, redraw_requested, effects, hdr, planets, sun>>

\* CameraContainer::update; the record of the call keeps the pointer motion that
\* was pending when it was made
UpdateCamera(dt) ==
    /\ LET cc == CameraContainer_update(app.camera_container, dt)
       IN  /\ CameraInBounds(cc.camera)
           /\ app' = [app EXCEPT !.camera_container = cc]
    /\ last' = [ev |-> "update_camera", dt |-> dt,
                consumed |-> <<app.camera_container.camera_controller.rotate_horizontal,
                               app.camera_container.camera_controller.rotate_vertical>>]
    /\ UNCHANGED <<window, exiting, redraw_requested, effects, hdr, planets, sun>>

CameraKeys == {"KeyW", "ArrowUp", "Space", "KeyQ"}
CameraMotions == {<<30, 0>>, <<0, 30>>, <<0, -30>>}

NextCamera ==
    \/ \E key \in CameraKeys, pressed \in BOOLEAN : ProcessKeyboard(key, pressed)
    \/ \E m \in CameraMotions : HandleMouse(m[1], m[2])
    \/ \E dt \in Durations : UpdateCamera(dt)

SpecCamera == InitCamera /\ [][NextCamera]_vars

\* the same interface with every key code the model distinguishes, one pointer
\* motion, and updates
NextKeys ==
    \/ \E key \in KeyCodes, pressed \in BOOLEAN : ProcessKeyboard(key, pressed)
    \/ HandleMouse(0, 30)
    \/ \E dt \in Durations : UpdateCamera(dt)

SpecKeys == InitCamera /\ [][NextKeys]_vars

(***************************************************************************)
(* The controller under updates of up to a second: keys of three           *)
(* directions, a horizontal pointer motion (half a turn in a second), and   *)
(* CameraContainer::update.                                                *)
(***************************************************************************)
\* frame times, in ms: none, and the second of a stalled frame
AdvanceTimes == {0, 1000}

AdvanceKeys == {"KeyW", "KeyD", "Space"}

AdvanceInBounds(camera) ==
    /\ Abs(camera.yaw) <= MaxYawQuarters * FRAC_PI_2
    /\ \A k \in 1..3 : Abs(camera.position[k] - StartPosition[k]) <= MaxAdvance * 1000

Advance(dt) ==
    /\ LET cc == CameraContainer_update(app.camera_container, dt)
       IN  /\ AdvanceInBounds(cc.camera)
           /\ app' = [app EXCEPT !.camera_container = cc]
    /\ last' = [ev |-> "update_camera", dt |-> dt]
    /\ UNCHANGED <<window, exiting, redraw_requested, effects, hdr, planets, sun>>

NextAdvance ==
    \/ \E key \in AdvanceKeys, pressed \in BOOLEAN : ProcessKeyboard(key, pressed)
    \/ HandleMouse(15, 0)
    \/ \E dt \in AdvanceTimes : Advance(dt)

SpecAdvance == InitCamera /\ [][NextAdvance]_vars

(***************************************************************************)
(* The scene components driven through their own interface: Planets, Sun   *)
(* and the HDR pipeline, each updated and synced in any order.             *)
(***************************************************************************)
\* elapsed times, in ms: within the first seconds, and up to a minute (more than
\* a full turn of the innermost planet)
Times == {500 * k : k \in 0..MaxTime} \cup {20000 * k : k \in 0..MaxTime}

InitScene ==
    /\ app = None
    /\ window = None
    /\ exiting = FALSE
    /\ redraw_requested = FALSE
    /\ effects = <<>>
    /\ last = [ev |-> "new"]
    /\ hdr = HdrPipeline_new([width |-> 800, height |-> 600])
    /\ planets = Planets_new
    /\ sun = Sun_new

PlanetsUpdate(t) ==
    /\ planets' = Planets_update(planets, t)
    /\ last' = [ev |-> "Planets::update", t |-> t]
    /\ UNCHANGED <<app, window, exiting, redraw_requested, effects, hdr, sun>>

PlanetsSync ==
    /\ planets' = Planets_sync_instance_buffer(planets)
    /\ last' = [ev |-> "Planets::sync_instance_buffer"]
    /\ UNCHANGED <<app, window, exiting, redraw_requested, effects, hdr, sun>>

SunUpdate(t) ==
    /\ sun' = Sun_update(sun, t)
    /\ last' = [ev |-> "Sun::update", t |-> t]
    /\ UNCHANGED <<app, window, exiting, redraw_requested, effects, hdr, planets>>

SunSync ==
    /\ sun' = Sun_sync_instance_buffer(sun)
    /\ last' = [ev |-> "Sun::sync_instance_buffer"]
    /\ UNCHANGED <<app, window, exiting, redraw_requested, effects, hdr, planets>>

PlanetsDraw ==
    /\ effects' = <<draw_planets(planets, "camera_bind_group", "sun.light.bind_group")>>
    /\ last' = [ev |-> "draw_planets"]
    /\ UNCHANGED <<app, window, exiting, redraw_requested, hdr, planets, sun>>

HdrResize(width, height) ==
    /\ hdr' = HdrPipeline_resize(hdr, width, height)
    /\ last' = [ev |-> "HdrPipeline::resize", width |-> width, height |-> height]
    /\ UNCHANGED <<app, window, exiting, redraw_requested, effects, planets, sun>>

NextScene ==
    \/ \E t \in Times : PlanetsUpdate(t)
    \/ PlanetsSync
    \/ PlanetsDraw
    \/ \E t \in Times : SunUpdate(t)
    \/ SunSync
    \/ \E w \in Widths \ {0}, h \in Heights \ {0} : HdrResize(w, h)

SpecScene == InitScene /\ [][NextScene]_vars


(***************************************************************************)
(* sphere.rs and ring.rs: the mesh generators, one push loop iteration per *)
(* step. The state keeps the loop counters, the number of vertices and of  *)
(* indices pushed so far, and the indices the last iteration pushed.       *)
(***************************************************************************)
\* the segment counts Sphere::new passes (both of them) and Ring::new passes
SPHERE_SEGMENTS == 128
RING_SEGMENTS == 128

\* a u16 result: the value the type keeps
Wrap16(n) == n % 65536

\* whether an exact result fits a u16
Fits16(n) == n >= 0 /\ n < 65536

\* one cell of the index loop with the second row starting a vertex late
sphere_cell_skewed(y, x, longitude_segments) ==
    LET i == Wrap16(Wrap16(y * Wrap16(longitude_segments + 1)) + x)
        next == Wrap16(Wrap16(i + longitude_segments) + 2)
    IN  [indices |-> <<i, Wrap16(i + 1), next, Wrap16(i + 1), Wrap16(next + 1), next>>,
         overflow |-> FALSE]

\* one iteration of the index loop of generate_sphere_vertices, in u16
sphere_cell(y, x, longitude_segments) ==
    LET row == Wrap16(longitude_segments + 1)
        i == Wrap16(Wrap16(y * row) + x)
        next == Wrap16(Wrap16(i + longitude_segments) + 1)
    IN  [indices |-> <<i, Wrap16(i + 1), next, Wrap16(i + 1), Wrap16(next + 1), next>>,
         overflow |-> ~ /\ Fits16(longitude_segments + 1)
                        /\ Fits16(y * row)
                        /\ Fits16(Wrap16(y * row) + x)
                        /\ Fits16(i + longitude_segments)
                        /\ Fits16(Wrap16(i + longitude_segments) + 1)
                        /\ Fits16(i + 1)
                        /\ Fits16(next + 1)]

\* one iteration of the index loop of generate_ring_vertices; i is a usize and
\* `(i * 2) as u16` truncates
ring_cell(i) ==
    LET i0 == Wrap16(i * 2)
        i1 == Wrap16(i0 + 1)
        i2 == Wrap16(i0 + 2)
        i3 == Wrap16(i0 + 3)
    IN  [indices |-> <<i0, i2, i1, i1, i2, i3>>,
         overflow |-> ~(Fits16(i * 2) /\ Fits16(i0 + 3))]

\* generate_sphere_vertices(longitude_segments, latitude_segments), at its start
generate_sphere_vertices(longitude_segments, latitude_segments) ==
    [mesh |-> "sphere", phase |-> "vertices", y |-> 0, x |-> 0,
     longitude_segments |-> longitude_segments,
     latitude_segments |-> latitude_segments,
     vertices |-> 0, indices |-> 0, pushed |-> <<>>, overflow |-> FALSE]

\* generate_ring_vertices(_, _, segments), at its start
generate_ring_vertices(segments) ==
    [mesh |-> "ring", phase |-> "vertices", i |-> 0, segments |-> segments,
     vertices |-> 0, indices |-> 0, pushed |-> <<>>, overflow |-> FALSE]

InitMesh ==
    /\ app \in {generate_sphere_vertices(SPHERE_SEGMENTS, SPHERE_SEGMENTS),
                generate_ring_vertices(RING_SEGMENTS)}
    /\ window = None
    /\ exiting = FALSE
    /\ redraw_requested = FALSE
    /\ effects = <<>>
    /\ last = [ev |-> "generate"]
    /\ hdr = None
    /\ planets = None
    /\ sun = None

\* the body of `for x in 0..=longitude_segments` inside `for y in 0..=latitude_segments`
SpherePushVertex ==
    /\ app.mesh = "sphere"
    /\ app.phase = "vertices"
    /\ app' =
          IF app.x < app.longitude_segments
          THEN [app EXCEPT !.vertices = @ + 1, !.x = @ + 1]
          ELSE IF app.y < app.latitude_segments
          THEN [app EXCEPT !.vertices = @ + 1, !.x = 0, !.y = @ + 1]
          ELSE [app EXCEPT !.vertices = @ + 1, !.x = 0, !.y = 0,
                           !.phase = IF app.latitude_segments > 0
                                        /\ app.longitude_segments > 0
                                     THEN "indices" ELSE "done"]
    /\ last' = [ev |-> "vertices.push"]
    /\ UNCHANGED <<window, exiting, redraw_requested, effects, hdr, planets, sun>>

\* the body of `for x in 0..longitude_segments` inside `for y in 0..latitude_segments`
SpherePushIndices ==
    /\ app.mesh = "sphere"
    /\ app.phase = "indices"
    /\ LET cell == sphere_cell(app.y, app.x, app.longitude_segments)
           pushed == [app EXCEPT !.indices = @ + 6,
                                 !.pushed = cell.indices,
                                 !.overflow = @ \/ cell.overflow]
       IN  app' =
              IF app.x < app.longitude_segments - 1
              THEN [pushed EXCEPT !.x = @ + 1]
              ELSE IF app.y < app.latitude_segments - 1
              THEN [pushed EXCEPT !.x = 0, !.y = @ + 1]
              ELSE [pushed EXCEPT !.phase = "done"]
    /\ last' = [ev |-> "indices.push"]
    /\ UNCHANGED <<window, exiting, redraw_requested, effects, hdr, planets, sun>>

\* the body of `for i in 0..=segments`: an inner and an outer vertex
RingPushVertices ==
    /\ app.mesh = "ring"
    /\ app.phase = "vertices"
    /\ app' =
          IF app.i < app.segments
          THEN [app EXCEPT !.vertices = @ + 2, !.i = @ + 1]
          ELSE [app EXCEPT !.vertices = @ + 2, !.i = 0,
                           !.phase = IF app.segments > 0 THEN "indices" ELSE "done"]
    /\ last' = [ev |-> "vertices.push"]
    /\ UNCHANGED <<window, exiting, redraw_requested, effects, hdr, planets, sun>>

\* the body of `for i in 0..segments`: two triangles
RingPushIndices ==
    /\ app.mesh = "ring"
    /\ app.phase = "indices"
    /\ LET cell == ring_cell(app.i)
           pushed == [app EXCEPT !.indices = @ + 6,
                                 !.pushed = cell.indices,
                                 !.overflow = @ \/ cell.overflow]
       IN  app' =
              IF app.i < app.segments - 1
              THEN [pushed EXCEPT !.i = @ + 1]
              ELSE [pushed EXCEPT !.phase = "done"]
    /\ last' = [ev |-> "indices.push"]
    /\ UNCHANGED <<window, exiting, redraw_requested, effects, hdr, planets, sun>>

NextMesh ==
    \/ SpherePushVertex
    \/ SpherePushIndices
    \/ RingPushVertices
    \/ RingPushIndices

SpecMesh == InitMesh /\ [][NextMesh]_vars


(***************************************************************************)
(* Properties.                                                             *)
(***************************************************************************)
HasOp(name) == \E i \in DOMAIN effects : effects[i].op = name

\* the last event was a RedrawRequested whose get_current_texture returned a
\* result in rs
Acquired(rs) ==
    /\ last.ev = "RedrawRequested"
    /\ \E i \in DOMAIN effects :
          effects[i].op = "get_current_texture" /\ effects[i].result \in rs

\* the last event was a RedrawRequested that submitted a frame
Rendered == last.ev = "RedrawRequested" /\ HasOp("submit")

Controller == app.camera_container.camera_controller
TheCamera == app.camera_container.camera

\* C1: whatever keys, pointer motions and updates came before, the camera pitch
\* lies in [-(pi/2 - 0.0001), pi/2 - 0.0001].
C1_PitchClamped ==
    app # None =>
        /\ TheCamera.pitch >= -SAFE_FRAC_PI_2
        /\ TheCamera.pitch <= SAFE_FRAC_PI_2

\* an update has pushed the pitch against the upper end of the range
C1_Witness ==
    /\ last.ev = "update_camera"
    /\ last.dt > 0
    /\ TheCamera.pitch = SAFE_FRAC_PI_2

\* C2: an update leaves both rotation accumulators at exactly zero, and the yaw
\* and pitch it leaves are those computed from the accumulators as they were
\* before the call (the reset comes after their use).
C2_AccumulatorsReset ==
    [][last'.ev = "update_camera" =>
        /\ Controller'.rotate_horizontal = 0
        /\ Controller'.rotate_vertical = 0
        /\ TheCamera'.yaw =
              TheCamera.yaw
              + Rotation(Controller.rotate_horizontal, Controller.sensitivity, last'.dt)
        /\ TheCamera'.pitch =
              ClampPitch(TheCamera.pitch
                         + Rotation(-Controller.rotate_vertical, Controller.sensitivity,
                                    last'.dt))]_vars

\* an update has applied accumulated motion on both axes and cleared it
C2_Witness ==
    /\ last.ev = "update_camera"
    /\ last.dt > 0
    /\ TheCamera.yaw # to_radians(-90)
    /\ TheCamera.pitch # to_radians(-20)
    /\ Controller.rotate_horizontal = 0
    /\ Controller.rotate_vertical = 0

\* C3: a Resized event with width 0 or height 0 changes nothing of the State
\* (configuration, configured flag, surface, depth texture, projection), leaves
\* the HDR target alone and makes no GPU call.
C3_ZeroResizeIsNoOp ==
    [][(last'.ev = "Resized" /\ (last'.width = 0 \/ last'.height = 0)) =>
        /\ app' = app
        /\ hdr' = hdr
        /\ effects' = <<>>]_vars

\* a zero-sized resize has arrived at a configured surface
C3_Witness ==
    /\ last.ev = "Resized"
    /\ last.width = 0
    /\ last.height > 0
    /\ app # None
    /\ app.is_surface_configured
    /\ app.config.width > 0

\* C4: every frame rendered finds the surface, the depth texture, the HDR target
\* and the projection aspect all derived from the configured (width, height).
C4_SameDimensions ==
    (app # None /\ Rendered) =>
        /\ app.surface.size = <<app.config.width, app.config.height>>
        /\ app.depth_texture = [width |-> app.config.width, height |-> app.config.height]
        /\ app.camera_container.camera_buffer.aspect
              = Aspect(app.config.width, app.config.height)
        /\ hdr = [width |-> app.config.width, height |-> app.config.height]

\* C5: the configured surface never exceeds the device's maximum texture dimension.
C5_WithinDeviceLimit ==
    (app # None /\ app.is_surface_configured) =>
        /\ app.config.width <= MAX_TEXTURE_DIMENSION_2D
        /\ app.config.height <= MAX_TEXTURE_DIMENSION_2D

WindowIsPositive == window.inner_size[1] > 0 /\ window.inner_size[2] > 0

\* C6 as claimed: after an acquisition that failed with Lost or Outdated the event
\* loop goes on, nothing was submitted or presented, and the surface has been
\* reconfigured at the window's current size.
C6_AlwaysReconfigured ==
    (app # None /\ Acquired({"Lost", "Outdated"})) =>
        /\ ~exiting
        /\ ~HasOp("submit") /\ ~HasOp("present")
        /\ HasOp("surface.configure")
        /\ ~app.surface.stale
        /\ app.surface.size = window.inner_size

\* C6, amended: after an acquisition that failed with Lost or Outdated the event
\* loop goes on and nothing was submitted or presented; if the window's current
\* size is positive in both dimensions the surface has been reconfigured at that
\* size, and otherwise the resize was a no-op and the surface is as it was.
C6_ReconfiguredIfPositive ==
    (app # None /\ Acquired({"Lost", "Outdated"})) =>
        /\ ~exiting
        /\ ~HasOp("submit") /\ ~HasOp("present") /\ ~HasOp("log::error")
        /\ IF WindowIsPositive
           THEN /\ HasOp("surface.configure")
                /\ ~app.surface.stale
                /\ app.surface.size = window.inner_size
                /\ <<app.config.width, app.config.height>> = window.inner_size
           ELSE /\ ~HasOp("surface.configure")
                /\ app.surface.stale

\* an Outdated acquisition has been answered by a reconfiguration at a window
\* size that differs from the size State was created with
C6_Witness ==
    /\ app # None
    /\ Acquired({"Outdated"})
    /\ WindowIsPositive
    /\ HasOp("surface.configure")
    /\ app.surface.size = <<800, 300>>

\* C7: after an acquisition that failed with an error other than Lost / Outdated
\* the error has been logged, nothing was submitted or presented, the surface was
\* not reconfigured, the event loop goes on and a redraw has been requested.
C7_OtherErrorSkipsFrame ==
    (app # None /\ Acquired({"Timeout", "OutOfMemory", "Other"})) =>
        /\ \E i \in DOMAIN effects :
              effects[i].op = "log::error" /\ Acquired({effects[i].error})
        /\ ~HasOp("submit") /\ ~HasOp("present") /\ ~HasOp("surface.configure")
        /\ ~exiting
        /\ HasOp("request_redraw")
        /\ redraw_requested

\* an OutOfMemory acquisition has been logged
C7_Witness ==
    /\ app # None
    /\ Acquired({"OutOfMemory"})
    /\ HasOp("log::error")

\* the steps of the per-frame state machine, in the names of the calls that
\* record them
FrameSteps ==
    {"begin_render_pass", "draw_planets", "draw_sun", "draw_ring", "draw_skybox",
     "hdr_process"}

\* the frame steps the last handler recorded, in order
RecordedSteps ==
    LET steps == SelectSeq(effects, LAMBDA e : e.op \in FrameSteps)
    IN  [i \in DOMAIN steps |-> steps[i].op]

\* C8: a rendered frame records BeginFrame, the planets, the sun, the ring, the
\* skybox and the tonemap resolve, each once and in this order.
C8_FrameOrder ==
    Rendered =>
        RecordedSteps = <<"begin_render_pass", "draw_planets", "draw_sun", "draw_ring",
                          "draw_skybox", "hdr_process">>

\* C9: in a rendered frame the tonemap pass is the last thing recorded before the
\* submission, and the geometry passes come before it.
C9_TonemapLast ==
    Rendered =>
        \E i \in DOMAIN effects :
            /\ effects[i].op = "hdr_process"
            /\ i + 1 \in DOMAIN effects
            /\ effects[i + 1].op = "submit"
            /\ \A j \in DOMAIN effects :
                  effects[j].op \in (FrameSteps \ {"hdr_process"}) => j < i

\* C10: what Planets::update(t) and Sun::update(t) leave depends on t alone: it is
\* what the same call leaves on the freshly constructed value, whatever updates
\* and syncs came before.
C10_UpdateIsFunctionOfTime ==
    /\ last.ev = "Planets::update" =>
          planets.instances = Planets_update(Planets_new, last.t).instances
    /\ last.ev = "Sun::update" =>
          sun.instance = Sun_update(Sun_new, last.t).instance

\* an update to 1 s follows an update to another time (whose records were
\* uploaded) and leaves the planets away from where they were constructed
C10_Witness ==
    /\ last.ev = "Planets::update"
    /\ last.t = 1000
    /\ planets.instance_buffer
          = Planets_sync_instance_buffer(Planets_update(Planets_new, 1500)).instance_buffer
    /\ planets.instances # Planets_new.instances
    /\ sun.instance # Sun_new.instance

\* |v| in 1e-3 units, to the nearest 10 (the components are brought down by 10
\* before they are squared)
DistanceFromOrigin(v) ==
    10 * Length(<<TruncDiv(v[1], 10), TruncDiv(v[2], 10), TruncDiv(v[3], 10)>>)

\* the angle of planet k (1-based) at time t: omega * t + Phi
OrbitAngle(k, t) == TruncDiv(t * movement_speed(k - 1), 1000) + INITIAL_OFFSET[k]

\* C11: every planet is in the y = 0 plane at its orbital radius from the origin
\* (within 1 %), at construction and after every update; after update(t) it is at
\* angle omega * t + Phi on that circle; and planet 0 at t = 0 is at
\* (12.5 cos(3 pi / 4), 0, 12.5 sin(3 pi / 4)) ~ (-8.84, 0, 8.84), where it was
\* constructed.
C11_OnOrbit ==
    /\ \A k \in 1..PLANETS_COUNT :
          /\ planets.instances[k].position[2] = 0
          /\ 100 * Abs(DistanceFromOrigin(planets.instances[k].position) - PLANETS_RADIUS[k])
                <= PLANETS_RADIUS[k]
    /\ last.ev = "Planets::update" =>
          \A k \in 1..PLANETS_COUNT :
             planets.instances[k].position
                = << TruncDiv(PLANETS_RADIUS[k] * Cos(OrbitAngle(k, last.t)), 1000), 0,
                     TruncDiv(PLANETS_RADIUS[k] * Sin(OrbitAngle(k, last.t)), 1000) >>
    /\ (last.ev = "Planets::update" /\ last.t = 0) =>
          /\ planets.instances[1].position = Planets_new.instances[1].position
          /\ planets.instances[1].position
                = << TruncDiv(12500 * Cos(3 * FRAC_PI_4), 1000), 0,
                     TruncDiv(12500 * Sin(3 * FRAC_PI_4), 1000) >>
          /\ 100 * Abs(planets.instances[1].position[1] + 8839) <= 8839
          /\ 100 * Abs(planets.instances[1].position[3] - 8839) <= 8839

\* after a minute the innermost planet has gone more than a full turn and is in
\* the quadrant x > 0, z < 0, while at t = 0 it is in x < 0, z > 0
C11_Witness ==
    /\ last.ev = "Planets::update"
    /\ last.t = 60000
    /\ planets.instances[1].position[1] > 0
    /\ planets.instances[1].position[3] < 0
    /\ Planets_new.instances[1].position[1] < 0

\* the angle planet k (1-based) has travelled from its start at time t
Travelled(k, t) == OrbitAngle(k, t) - INITIAL_OFFSET[k]

\* C12: the angular speed 0.15 - 0.015 i - 0.0002 i^2 is positive for each of the
\* 8 planets and strictly smaller for each next one, so after an update to t > 0
\* every planet has travelled a positive angle, strictly smaller for each next one.
C12_SpeedDecreasing ==
    /\ \A i \in 0..(PLANETS_COUNT - 1) : movement_speed(i) > 0
    /\ \A i \in 1..(PLANETS_COUNT - 1) : movement_speed(i) < movement_speed(i - 1)
    /\ (last.ev = "Planets::update" /\ last.t > 0) =>
          /\ \A k \in 1..PLANETS_COUNT : Travelled(k, last.t) > 0
          /\ \A k \in 2..PLANETS_COUNT : Travelled(k, last.t) < Travelled(k - 1, last.t)

\* an update to 20 s has moved every planet away from where it was constructed
C12_Witness ==
    /\ last.ev = "Planets::update"
    /\ last.t = 20000
    /\ \A k \in 1..PLANETS_COUNT :
          planets.instances[k].position # Planets_new.instances[k].position

\* C13: no body has an orientation with NaN components: a grid instance at the
\* origin has the rotation by 0 about the fixed axis Z instead of one about its
\* normalized position, the sun (at the origin) has a rotation about the fixed
\* axis Y, and no planet is constructed at the origin.
C13_OrientationDefined ==
    /\ app # None =>
          \A n \in DOMAIN app.instances :
             /\ app.instances[n].rotation.axis # NaNVec3
             /\ app.instances[n].position = <<0, 0, 0>> =>
                   app.instances[n].rotation = from_axis_angle(<<0, 0, 1000>>, 0)
    /\ sun # None =>
          /\ sun.instance.position = <<0, 0, 0>>
          /\ sun.instance.rotation.axis # NaNVec3
    /\ \A k \in 1..PLANETS_COUNT :
          /\ Planets_new.instances[k].position # <<0, 0, 0>>
          /\ Planets_new.instances[k].rotation.axis # NaNVec3

\* State::new has built an instance that lands on the origin, next to others
\* that do not, and the sun
C13_Witness ==
    /\ app # None
    /\ sun # None
    /\ \E n \in DOMAIN app.instances : app.instances[n].position = <<0, 0, 0>>
    /\ \E n \in DOMAIN app.instances :
          /\ app.instances[n].position # <<0, 0, 0>>
          /\ app.instances[n].rotation.angle = to_radians(45)

\* the fixed key set and the flag of each key's direction
DirectionOf ==
    [KeyW |-> "amount_forward", ArrowUp |-> "amount_forward",
     KeyS |-> "amount_backward", ArrowDown |-> "amount_backward",
     KeyA |-> "amount_left", ArrowLeft |-> "amount_left",
     KeyD |-> "amount_right", ArrowRight |-> "amount_right",
     Space |-> "amount_up", ShiftLeft |-> "amount_down"]

\* C14: process_keyboard with a key outside {W, S, A, D, arrows, Space, ShiftLeft}
\* returns false and leaves the whole controller (flags, accumulators, speed,
\* sensitivity) as it was; with a key of the set it returns true and changes the
\* flag of that key's direction (1 when pressed, 0 when released) and nothing
\* else. The camera is not touched either way.
C14_KeyChangesOwnFlagOnly ==
    [][last'.ev = "process_keyboard" =>
        /\ TheCamera' = TheCamera
        /\ IF last'.key \in DOMAIN DirectionOf
           THEN /\ last'.handled
                /\ Controller' =
                      [Controller EXCEPT ![DirectionOf[last'.key]] =
                                            IF last'.pressed THEN 1 ELSE 0]
           ELSE /\ ~last'.handled
                /\ Controller' = Controller]_vars

\* a key outside the set has arrived at a controller with flags set and pointer
\* motion accumulated, and was not handled
C14_Witness ==
    /\ last.ev = "process_keyboard"
    /\ last.key = "KeyQ"
    /\ last.pressed
    /\ ~last.handled
    /\ Controller.amount_forward = 1
    /\ Controller.amount_down = 1
    /\ Controller.rotate_vertical = 30

\* the directional flags of the controller
Flags ==
    {"amount_forward", "amount_backward", "amount_left", "amount_right", "amount_up",
     "amount_down"}

\* C15: a directional flag changes only in a process_keyboard call with a key of
\* that flag's direction, to 1 on a press and to 0 on a release: updates, pointer
\* motion and other keys leave it as it is.
C15_FlagsStick ==
    [][\A f \in Flags :
          Controller'[f] # Controller[f] =>
             /\ last'.ev = "process_keyboard"
             /\ last'.key \in DOMAIN DirectionOf
             /\ DirectionOf[last'.key] = f
             /\ Controller'[f] = IF last'.pressed THEN 1 ELSE 0]_vars

\* the forward flag is still set after pointer motion and an update that moved
\* and turned the camera
C15_Witness ==
    /\ last.ev = "update_camera"
    /\ last.dt > 0
    /\ Controller.amount_forward = 1
    /\ Controller.amount_backward = 0
    /\ TheCamera.position # StartPosition
    /\ TheCamera.pitch # to_radians(-20)

\* the unit vectors of the camera's pose, scaled by 1000
ForwardOf(camera) == normalize(Forward(camera.yaw, camera.pitch))
RightOf(camera) == normalize(<<-Sin(camera.yaw), 0, Cos(camera.yaw)>>)

\* v * k * speed * dt / 1000, one component (v scaled by 1000, dt in ms)
Term(v, n, k, speed, dt) == TruncDiv(v[n] * k * speed * dt, 1000)

\* C16: an update moves the camera by forward (Fwd - Back) speed dt
\* + right (Right - Left) speed dt + up (Up - Down) speed dt, the vectors being
\* those of the pose before the update; with only the forward flag set, speed 4
\* and dt = 1 s that is 4 forward, and with no flag set the position stays.
C16_Moves ==
    [][last'.ev = "update_camera" =>
        /\ \A n \in 1..3 :
              TheCamera'.position[n] =
                 TheCamera.position[n]
                 + Term(ForwardOf(TheCamera), n,
                        Controller.amount_forward - Controller.amount_backward,
                        Controller.speed, last'.dt)
                 + Term(RightOf(TheCamera), n,
                        Controller.amount_right - Controller.amount_left,
                        Controller.speed, last'.dt)
                 + Term(<<0, 1000, 0>>, n,
                        Controller.amount_up - Controller.amount_down,
                        Controller.speed, last'.dt)
        /\ ( /\ Controller.amount_forward = 1
             /\ \A f \in Flags \ {"amount_forward"} : Controller[f] = 0
             /\ Controller.speed = 4
             /\ last'.dt = 1000 ) =>
              \A n \in 1..3 :
                 TheCamera'.position[n] = TheCamera.position[n] + 4 * ForwardOf(TheCamera)[n]
        /\ (\A f \in Flags : Controller[f] = 0) =>
              TheCamera'.position = TheCamera.position]_vars

\* from the start pose (yaw -90 degrees, pitch -20 degrees), with only the forward
\* flag set, an update of 1 s has moved the camera 4 units along forward
C16_Witness ==
    /\ last.ev = "update_camera"
    /\ last.dt = 1000
    /\ Controller.amount_forward = 1
    /\ \A f \in Flags \ {"amount_forward"} : Controller[f] = 0
    /\ TheCamera.yaw = to_radians(-90)
    /\ TheCamera.pitch = to_radians(-20)
    /\ \A n \in 1..3 :
          TheCamera.position[n] = StartPosition[n] + 4 * ForwardOf(TheCamera)[n]
    /\ TheCamera.position # StartPosition

\* the calls of the last handler that record a draw
DrawOps == {"draw_planets", "draw_sun", "draw_ring", "draw_skybox"}

\* C17: in a rendered frame the camera buffer holds the uniform computed from the
\* camera and the projection as they are in that frame (the pose after the frame's
\* update, the aspect of the last accepted resize), and the upload comes before
\* the render pass and every draw.
C17_UniformFresh ==
    (app # None /\ Rendered) =>
        /\ app.camera_container.camera_uniform
              = view_projection_matrix(app.camera_container.camera,
                                       app.camera_container.projection)
        /\ app.camera_container.camera_buffer = app.camera_container.camera_uniform
        /\ app.camera_container.camera_buffer.aspect
              = Aspect(app.config.width, app.config.height)
        /\ \E i \in DOMAIN effects :
              /\ effects[i].op = "write_camera_buffer"
              /\ \A j \in DOMAIN effects :
                    effects[j].op \in (DrawOps \cup {"begin_render_pass"}) => i < j

\* a frame rendered after a resize changed the aspect and after pointer motion
\* and a key changed the pose
C17_Witness ==
    /\ app # None
    /\ Rendered
    /\ last.dt > 0
    /\ app.camera_container.camera_buffer.aspect = Aspect(800, 300)
    /\ app.camera_container.camera_buffer.pitch # to_radians(-20)
    /\ app.camera_container.camera_buffer.position # StartPosition

\* the draws the last handler recorded
Draws == {i \in DOMAIN effects : effects[i].op \in DrawOps}

\* C18: a rendered frame issues the planets, sun, ring and skybox passes, all of
\* them with one and the same camera bind group and one and the same lighting
\* bind group.
C18_SharedBindGroups ==
    Rendered =>
        /\ \A pass \in DrawOps : \E i \in Draws : effects[i].op = pass
        /\ \A i, j \in Draws :
              /\ effects[i].camera_bind_group = effects[j].camera_bind_group
              /\ effects[i].light_bind_group = effects[j].light_bind_group

\* C19: the planets' instance buffer always holds one record per planet in index
\* order: record k carries texture index k and a translation on planet k's orbit,
\* and right after a sync record k is the record built from planet k as it then is.
C19_RecordsInIndexOrder ==
    /\ DOMAIN planets.instance_buffer = 1..PLANETS_COUNT
    /\ \A k \in 1..PLANETS_COUNT :
          /\ planets.instances[k].texture_index = k - 1
          /\ planets.instance_buffer[k].texture_index = k - 1
          /\ 100 * Abs(DistanceFromOrigin(planets.instance_buffer[k].model_matrix.translation)
                       - PLANETS_RADIUS[k]) <= PLANETS_RADIUS[k]
    /\ last.ev = "Planets::sync_instance_buffer" =>
          \A k \in 1..PLANETS_COUNT :
             /\ planets.instance_buffer[k].model_matrix.translation
                   = planets.instances[k].position
             /\ planets.instance_buffer[k].model_matrix.rotation
                   = planets.instances[k].rotation
             /\ planets.instance_buffer[k].normal_matrix = planets.instances[k].rotation

\* a sync has uploaded the planets as an update moved them, over the records of
\* the construction
C19_Witness ==
    /\ last.ev = "Planets::sync_instance_buffer"
    /\ planets.instances = Planets_update(Planets_new, 40000).instances
    /\ \A k \in 1..PLANETS_COUNT :
          planets.instance_buffer[k].model_matrix.translation
             # Planets_new.instances[k].position

\* C20: there are always 8 planet instances, the instance buffer always holds as
\* many records as it was created with, and a draw of the planets covers the
\* instance range 0..8.
C20_CountFixed ==
    /\ PLANETS_COUNT = 8
    /\ Len(planets.instances) = PLANETS_COUNT
    /\ Len(planets.instance_buffer) = Len(Planets_new.instance_buffer)
    /\ Len(planets.instance_buffer) = PLANETS_COUNT
    /\ last.ev = "draw_planets" =>
          /\ Len(effects) = 1
          /\ effects[1].op = "draw_planets"
          /\ effects[1].instances = Len(planets.instance_buffer)

\* the planets are drawn after an update and a sync replaced the records of the
\* construction
C20_Witness ==
    /\ last.ev = "draw_planets"
    /\ effects[1].instances = 8
    /\ planets.instances # Planets_new.instances
    /\ planets.instance_buffer # Planets_new.instance_buffer


(***************************************************************************)
(* Exit, cursor mode and startup                                           *)
(***************************************************************************)
\* the calls that put a frame on the screen
FrameOps == {"get_current_texture", "begin_render_pass", "submit", "present"}

NoFrameOps == \A i \in DOMAIN effects : effects[i].op \notin FrameOps

C22_CursorLockFlag ==
    (app # None /\ window # None) =>
        /\ "cursor_locked" \in DOMAIN Controller
        /\ Controller.cursor_locked =
               (window.cursor_grab = "Confined" /\ ~window.cursor_visible)
        /\ \/ window.cursor_grab = "Confined" /\ ~window.cursor_visible
           \/ window.cursor_grab = "None" /\ window.cursor_visible

\* the fields of a State that State::new returned
StateFields == DOMAIN State_new(<<800, 600>>)

\* C23: the application holds either no State or a complete one; a failed
\* startup leaves no State and ends the run; an event handled while there is
\* no State changes nothing
C23_NoPartialState ==
    [][/\ (app' = None \/ DOMAIN app' = StateFields)
       /\ (last'.ev = "Resumed" /\ ~last'.ok) => (app' = None /\ exiting')
       /\ (app = None /\ last'.ev # "Resumed") =>
              /\ app' = None
              /\ effects' = <<>>
              /\ UNCHANGED <<window, exiting, redraw_requested, hdr, planets, sun>>]_vars

\* a device event was handled before any State existed
C23_Witness == app = None /\ last # None /\ last.ev = "MouseMotion"

\* startup failed: there is a window, no State, and the run has ended
C23_FailedStartup == app = None /\ window # None /\ exiting


(***************************************************************************)
(* The sun                                                                 *)
(***************************************************************************)
\* a turn about +Y by 0.12 rad for each second of t (t in ms)
SunTurn(t) ==
    IF t = 0 THEN [axis |-> <<0, 0, 0>>, angle |-> 0]
    ELSE [axis |-> <<0, 1000, 0>>, angle |-> (12 * t) \div 10]

\* C24: the sun is at the origin at every elapsed time: Sun::update replaces
\* the orientation by the turn about +Y of 0.12 t and leaves position, scale,
\* texture index, light and the instance buffer as they were
C24_SunStaysAtOrigin ==
    [][last'.ev = "Sun::update" =>
          /\ sun'.instance.rotation = SunTurn(last'.t)
          /\ sun'.instance.position = <<0, 0, 0>>
          /\ sun'.instance.position = sun.instance.position
          /\ sun'.instance.scale = sun.instance.scale
          /\ sun'.instance.texture_index = sun.instance.texture_index
          /\ sun'.light = sun.light
          /\ sun'.instance_buffer = sun.instance_buffer]_vars

\* the sun a minute in: turned by 7.2 rad, still at the origin
C24_Witness ==
    /\ last.ev = "Sun::update"
    /\ last.t = 60000
    /\ sun.instance.rotation.angle = 72000
    /\ sun.instance.position = <<0, 0, 0>>
    /\ sun.light.position = <<0, 0, 0>>


(***************************************************************************)
(* The skybox pass                                                         *)
(***************************************************************************)
\* C25: the skybox pipeline tests depth against the depth buffer the geometry
\* passes wrote and does not write depth itself
C25_SkyboxDepthReadOnly ==
    LET pass == draw_skybox(Skybox_new(hdr), "camera_bind_group")
        ds == pass.pipeline.depth_stencil
    IN  /\ ds # None
        /\ ds.depth_compare \in {"Less", "LessEqual"}
        /\ ~ds.depth_write_enabled


(***************************************************************************)
(* The projection aspect                                                   *)
(***************************************************************************)
TheProjection == app.camera_container.projection

\* C26: Projection::resize is reached with a positive width and height only;
\* the configured flag implies a positive configured size and a finite aspect
\* derived from it; a rendered frame uses that aspect, so no frame is rendered
\* with the aspect of a zero-height startup window
C26_AspectNeverFromZeroHeight ==
    app # None =>
        /\ HasOp("projection.resize") =>
              /\ app.config.width > 0 /\ app.config.height > 0
              /\ last.ev = "Resized" => (last.width > 0 /\ last.height > 0)
              /\ last.ev = "RedrawRequested" =>
                     (window.inner_size[1] > 0 /\ window.inner_size[2] > 0)
        /\ app.is_surface_configured =>
              /\ app.config.width > 0 /\ app.config.height > 0
              /\ TheProjection.aspect
                    = Finite((app.config.width * 1000) \div app.config.height)
        /\ Rendered =>
              /\ app.is_surface_configured
              /\ app.camera_container.camera_buffer.aspect = TheProjection.aspect
        /\ ~app.is_surface_configured => ~HasOp("get_current_texture")

\* a redraw arrives while the projection still holds the aspect of a 0x0 startup
\* window: no frame is rendered
C26_Witness ==
    /\ app # None
    /\ last.ev = "RedrawRequested"
    /\ ~app.is_surface_configured
    /\ TheProjection.aspect = NaN
    /\ ~HasOp("submit")

\* after a 0x0 startup the first accepted resize makes the aspect finite and
\* frames are rendered with it
C26_RenderedAfterResize ==
    /\ app # None
    /\ Rendered
    /\ TheProjection.aspect = Finite(2666)


(***************************************************************************)
(* Skipped frames                                                          *)
(***************************************************************************)
\* position i of the first call of the name among the calls of the last handler
FirstOp(name) ==
    CHOOSE i \in DOMAIN effects :
        effects[i].op = name /\ \A j \in 1..(i - 1) : effects[j].op # name

\* C27: a frame skipped because the surface is not configured changes neither
\* the camera nor the accumulators and uploads nothing; a frame skipped because
\* the acquisition fails has advanced the camera by dt, zeroed the accumulators
\* and uploaded the uniform before the acquisition
C27_SkippedFrames ==
    [][(last'.ev = "RedrawRequested" /\ app # None) =>
        /\ ~app.is_surface_configured =>
              /\ app' = app
              /\ ~HasOp("write_camera_buffer")'
              /\ ~HasOp("get_current_texture")'
        /\ (app.is_surface_configured /\ last'.outcome # "Ok") =>
              /\ TheCamera' = update_camera(Controller, TheCamera, last'.dt).camera
              /\ Controller' = [Controller EXCEPT !.rotate_horizontal = 0,
                                                  !.rotate_vertical = 0]
              /\ app'.camera_container.camera_buffer
                    = view_projection_matrix(TheCamera', TheProjection)
              /\ HasOp("write_camera_buffer")'
              /\ HasOp("get_current_texture")'
              /\ FirstOp("write_camera_buffer")' < FirstOp("get_current_texture")'
              /\ ~HasOp("begin_render_pass")'
              /\ ~HasOp("submit")']_vars

\* a frame was skipped on a failed acquisition, and the camera has turned
C27_Witness ==
    /\ app # None
    /\ Acquired({"Timeout"})
    /\ last.dt > 0
    /\ TheCamera.pitch # to_radians(-20)
    /\ Controller.rotate_vertical = 0
    /\ ~HasOp("submit")

\* a frame was skipped on an unconfigured surface with pointer motion pending
C27_SkippedUnconfigured ==
    /\ app # None
    /\ last.ev = "RedrawRequested"
    /\ ~app.is_surface_configured
    /\ Controller.rotate_vertical # 0


(***************************************************************************)
(* Pointer motion between updates                                          *)
(***************************************************************************)
\* the turn an update of dt ms makes of a pending motion of deg pixels
Turn(deg, dt) == TruncDiv(to_radians(deg) * Controller.sensitivity * dt, 1000)

\* C28: pointer deltas add up in the accumulators until the next update, which
\* turns the camera by their sum scaled by dt and clears them, so the update
\* after it turns by nothing of them; an update with dt = 0 leaves yaw, pitch
\* and position as they were and still clears the accumulators
C28_DeltasConsumedOnce ==
    [][/\ last'.ev = "handle_mouse" =>
              /\ Controller'.rotate_horizontal = Controller.rotate_horizontal + last'.dx
              /\ Controller'.rotate_vertical = Controller.rotate_vertical + last'.dy
              /\ TheCamera' = TheCamera
       /\ last'.ev = "process_keyboard" =>
              /\ Controller'.rotate_horizontal = Controller.rotate_horizontal
              /\ Controller'.rotate_vertical = Controller.rotate_vertical
              /\ TheCamera' = TheCamera
       /\ last'.ev = "update_camera" =>
              /\ last'.consumed = <<Controller.rotate_horizontal,
                                    Controller.rotate_vertical>>
              /\ Controller'.rotate_horizontal = 0
              /\ Controller'.rotate_vertical = 0
              /\ TheCamera'.yaw = TheCamera.yaw + Turn(last'.consumed[1], last'.dt)
              /\ TheCamera'.pitch =
                    clamp(TheCamera.pitch + Turn(-last'.consumed[2], last'.dt),
                          -SAFE_FRAC_PI_2, SAFE_FRAC_PI_2)
              /\ last'.dt = 0 => TheCamera' = TheCamera
              /\ last'.consumed = <<0, 0>> =>
                    (TheCamera'.yaw = TheCamera.yaw /\ TheCamera'.pitch = TheCamera.pitch)]_vars

\* two pointer events were pending, an update with dt = 0 cleared them, and the
\* camera still looks where it did at the start
C28_Witness ==
    /\ last.ev = "update_camera"
    /\ last.dt = 0
    /\ last.consumed = <<30, 30>>
    /\ Controller.rotate_horizontal = 0
    /\ Controller.rotate_vertical = 0
    /\ TheCamera.yaw = to_radians(-90)
    /\ TheCamera.pitch = to_radians(-20)

\* pending motion on both axes was consumed by an update of positive length
C28_Consumed ==
    /\ last.ev = "update_camera"
    /\ last.dt > 0
    /\ last.consumed = <<30, 30>>
    /\ TheCamera.yaw # to_radians(-90)
    /\ Controller.rotate_horizontal = 0


(***************************************************************************)
(* Two keys of one direction                                               *)
(***************************************************************************)
\* C29: a directional flag holds the state of the most recent event among the
\* keys of its direction: the event sets it (1 on a press, 0 on a release)
\* whatever the other key of the direction is doing, so releasing one of two
\* held keys clears the flag, and a cleared flag is set again only by a press
C29_LastEventWins ==
    [][/\ (last'.ev = "process_keyboard" /\ last'.key \in DOMAIN DirectionOf) =>
              /\ Controller'[DirectionOf[last'.key]] = IF last'.pressed THEN 1 ELSE 0
              /\ \A other \in DOMAIN DirectionOf :
                    (last'.previous = <<other, TRUE>> /\ ~last'.pressed) =>
                        /\ DirectionOf[other] = DirectionOf[last'.key]
                        /\ Controller[DirectionOf[other]] = 1
                        /\ Controller'[DirectionOf[other]] = 0
       /\ \A f \in Flags :
              (Controller[f] = 0 /\ Controller'[f] = 1) =>
                  /\ last'.ev = "process_keyboard"
                  /\ last'.pressed
                  /\ last'.key \in DOMAIN DirectionOf
                  /\ DirectionOf[last'.key] = f]_vars

\* W was pressed and is held, ArrowUp is released: the forward flag is 0
C29_Witness ==
    /\ last.ev = "process_keyboard"
    /\ last.key = "ArrowUp"
    /\ ~last.pressed
    /\ last.previous = <<"KeyW", TRUE>>
    /\ Controller.amount_forward = 0


(***************************************************************************)
(* Mesh indices                                                            *)
(***************************************************************************)
\* C30: for the segment counts used (sphere 128 x 128, ring 128) every index
\* pushed is below the number of vertices generated, no u16 operation of the
\* index arithmetic overflows, and the number of indices is a multiple of 3:
\* 128 * 128 * 6 for the sphere and 128 * 6 for the ring
C30_IndicesInRange ==
    /\ ~app.overflow
    /\ app.indices % 3 = 0
    /\ app.phase = "vertices" => app.indices = 0
    /\ app.phase \in {"indices", "done"} =>
          /\ app.vertices = IF app.mesh = "sphere"
                            THEN (SPHERE_SEGMENTS + 1) * (SPHERE_SEGMENTS + 1)
                            ELSE (RING_SEGMENTS + 1) * 2
          /\ \A k \in DOMAIN app.pushed :
                app.pushed[k] >= 0 /\ app.pushed[k] < app.vertices
    /\ app.phase = "done" =>
          app.indices = IF app.mesh = "sphere"
                        THEN SPHERE_SEGMENTS * SPHERE_SEGMENTS * 6
                        ELSE RING_SEGMENTS * 6

\* the sphere is complete and its last cell used the last vertex
C30_Witness ==
    /\ app.mesh = "sphere"
    /\ app.phase = "done"
    /\ app.indices = 98304
    /\ app.vertices = 16641
    /\ app.pushed[5] = 16640

\* the ring is complete and its last cell used the last vertex
C30_WitnessRing ==
    /\ app.mesh = "ring"
    /\ app.phase = "done"
    /\ app.indices = 768
    /\ app.pushed[6] = 257

=============================================================================
